---- MODULE Spec2Model ----
(***************************************************************************)
(* The ballot ledger (contract VotingSystem) and the HTTP backend that     *)
(* submits transactions to it.                                             *)
(*                                                                         *)
(* Contract indices are 0-based as in Solidity; TLA+ sequences are         *)
(* 1-based, so candidates[i] of the contract is candidates[i + 1] here.    *)
(* A reverted transaction leaves the contract storage untouched; only the  *)
(* record of the call's outcome (last) changes.                            *)
(***************************************************************************)
EXTENDS Integers, Sequences, FiniteSets

\* ------------------------------------------------------------------ bounds
\* Candidates that may be registered before the model stops adding more.
MaxCandidates == 2
\* Number of distinct addresses (msg.sender values).
NumIdentities == 3

Identities == 1 .. NumIdentities
\* Candidate names as byte strings; <<>> is the empty string.
Names == {<<>>, <<"A">>, <<"B">>}
\* candidateIndex arguments: in range, equal to the length, beyond it.
Indices == 0 .. (MaxCandidates + 1)
\* HTTP requests the backend may have in flight at once.
Requests == {"r1", "r2"}

VARIABLES
    admin,              \* address public immutable admin
    candidates,         \* Candidate[] public candidates
    hasVoted,           \* mapping(address => bool) public hasVoted
    voterToCandidate,   \* mapping(address => uint256) public voterToCandidate
    last,               \* outcome of the most recent call to the contract
    creator,            \* history: msg.sender of the constructor
    nAddOk,             \* history: number of addCandidate calls that succeeded
    nVoteOk,            \* history: per address, number of vote calls that succeeded
    votingContract,     \* backend: whether the contract handle was created at load
    NODE_ENV,           \* backend: process.env.NODE_ENV ("" when unset)
    reqs                \* backend: per request, where its handling stands

ledger == <<admin, candidates, hasVoted, voterToCandidate>>
history == <<creator, nAddOk, nVoteOk>>
config == <<votingContract, NODE_ENV>>
api == <<votingContract, NODE_ENV, reqs>>
vars == <<admin, candidates, hasVoted, voterToCandidate, last, creator, nAddOk, nVoteOk,
          votingContract, NODE_ENV, reqs>>

\* ---------------------------------------------------------------- events
NoEvent == [kind |-> "none"]
CandidateAdded(candidateIndex, name) ==
    [kind |-> "CandidateAdded", candidateIndex |-> candidateIndex, name |-> name]
VoteCast(voter, candidateIndex) ==
    [kind |-> "VoteCast", voter |-> voter, candidateIndex |-> candidateIndex]

\* The record of one call: who called what with which arguments, the custom
\* error it reverted with ("none" when it did not), the error's argument,
\* the returned value and the emitted event.
Call(op, sender, name, index, err, errIndex, ret, event) ==
    [op |-> op, sender |-> sender, name |-> name, index |-> index,
     err |-> err, errIndex |-> errIndex, ret |-> ret, event |-> event]

\* No error was passed to next().
NoError == [status |-> 0, fragments |-> {"none"}]

\* data.winner of an answer without a winner object: absent, or null.
NoWinner == [kind |-> "absent", name |-> <<>>, voteCount |-> 0]
NullWinner == [kind |-> "null", name |-> <<>>, voteCount |-> 0]

\* req.body of a request that is no POST /vote, or has not arrived.
NoBody == [voterAddress |-> [kind |-> "missing", id |-> 0],
           candidateIndex |-> [missing |-> TRUE, text |-> <<>>]]

\* body.name of a request without one.
NoName == [type |-> "missing", chars |-> <<>>]

\* A request that has not arrived yet. Fields of the request and its answer:
\* route ("vote" or "candidates" once it has arrived), voterAddress, index, candidateName (POST /vote), name, adminAddr,
\* candidateIndex (POST /candidates; -1 is null), status, success. History
\* of its transaction: submitted (sent to the node), committed (mined
\* without revert), rejected (reverted or refused by the node), appendedAt
\* (index its candidate was stored at, -1 when none), raced (another
\* addCandidate was committed between its submission and its answer),
\* retry (the client sent it again for a request it had no answer to),
\* receipt (the shape of the receipt its addCandidate came back with).
\* Error answers: error (the text of the error field), stack (whether the
\* answer carries err.stack), err (the error passed to next, NoError when
\* none). GET /winner: winnerName (what getWinner returned), winner (the
\* data.winner of the answer). GET /candidates: listed (data.candidates).
\* POST /vote: body (voterAddress and candidateIndex as sent).
\* responses counts the answers sent for the request (res.json calls).
\* History of a GET /winner: seen (the winner and its count in every state
\* the ledger went through between the getWinner call and the answer, kept
\* by the transactions of NextSnapshot).
NewRequest ==
    [pc |-> "new", voterAddress |-> 0, index |-> 0, submitted |-> FALSE,
     committed |-> FALSE, status |-> 0, success |-> FALSE, candidateName |-> <<>>,
     name |-> NoName, adminAddr |-> 0, candidateIndex |-> -1, rejected |-> FALSE,
     appendedAt |-> -1, raced |-> FALSE, retry |-> FALSE, route |-> "", receipt |-> "",
     error |-> "", stack |-> FALSE, err |-> NoError,
     winnerName |-> <<>>, winner |-> NoWinner, listed |-> <<>>, body |-> NoBody,
     seen |-> {}, responses |-> 0]

\* ------------------------------------------------------------ constructor
\* Faulty variant: the admin is a fixed address, not the deployer.
LedgerInitFixedAdmin ==
    /\ \E deployer \in Identities :
          /\ admin = 1
          /\ creator = deployer
          /\ last = Call("constructor", deployer, <<>>, 0, "none", 0, <<>>, NoEvent)
    /\ candidates = <<>>
    /\ hasVoted = [a \in Identities |-> FALSE]
    /\ voterToCandidate = [a \in Identities |-> 0]
    /\ nAddOk = 0
    /\ nVoteOk = [a \in Identities |-> 0]

\* Faulty variant: the contract is deployed with a candidate in place.
LedgerInitPreloaded ==
    /\ \E deployer \in Identities :
          /\ admin = deployer
          /\ creator = deployer
          /\ last = Call("constructor", deployer, <<>>, 0, "none", 0, <<>>, NoEvent)
    /\ candidates = <<[name |-> <<"A">>, voteCount |-> 0]>>
    /\ hasVoted = [a \in Identities |-> FALSE]
    /\ voterToCandidate = [a \in Identities |-> 0]
    /\ nAddOk = 0
    /\ nVoteOk = [a \in Identities |-> 0]

\* The contract right after deployment.
LedgerInit ==
    /\ \E deployer \in Identities :
          /\ admin = deployer
          /\ creator = deployer
          /\ last = Call("constructor", deployer, <<>>, 0, "none", 0, <<>>, NoEvent)
    /\ candidates = <<>>
    /\ hasVoted = [a \in Identities |-> FALSE]
    /\ voterToCandidate = [a \in Identities |-> 0]
    /\ nAddOk = 0
    /\ nVoteOk = [a \in Identities |-> 0]

\* The contract alone: no backend is running.
Init ==
    /\ LedgerInit
    /\ votingContract = FALSE
    /\ NODE_ENV = ""
    /\ reqs = [r \in Requests |-> NewRequest]

\* ------------------------------------------------------------ addCandidate
\* Faulty variant: the modifier lets every sender through.
onlyAdminOpen(sender) == "none"

\* modifier onlyAdmin: the error the modifier reverts with, "none" to pass.
onlyAdmin(sender) ==
    IF sender # admin THEN "Unauthorized" ELSE "none"

\* Faulty variant: the empty-name check is missing.
addCandidateRevertNoNameCheck(sender, name) ==
    IF sender # admin THEN "Unauthorized" ELSE "none"

\* The error addCandidate reverts with, "none" when it goes through.
addCandidateRevert(sender, name) ==
    IF onlyAdmin(sender) # "none" THEN onlyAdmin(sender)
    ELSE IF Len(name) = 0 THEN "EmptyCandidateName"
    ELSE "none"

\* Faulty variant: the counts of the candidates are cleared on a push.
pushCandidateResetting(name) ==
    Append([k \in 1 .. Len(candidates) |-> [candidates[k] EXCEPT !.voteCount = 0]],
           [name |-> name, voteCount |-> 0])

\* Faulty variant: the new candidate is put in front of the others.
pushCandidateFront(name) ==
    <<[name |-> name, voteCount |-> 0]>> \o candidates

\* candidates.push(Candidate({name: name, voteCount: 0}))
pushCandidate(name) ==
    Append(candidates, [name |-> name, voteCount |-> 0])

\* Faulty variant: the event carries the new length, not the new index.
addCandidateEventLength(pushed, name) ==
    CandidateAdded(Len(pushed), name)

\* emit CandidateAdded(candidates.length - 1, name), after the push
addCandidateEvent(pushed, name) ==
    CandidateAdded(Len(pushed) - 1, name)

addCandidate(sender, name) ==
    LET err == addCandidateRevert(sender, name) IN
    IF err # "none"
    THEN /\ last' = Call("addCandidate", sender, name, 0, err, 0, <<>>, NoEvent)
         /\ UNCHANGED <<ledger, history>>
    ELSE /\ Len(candidates) < MaxCandidates
         /\ candidates' = pushCandidate(name)
         /\ last' = Call("addCandidate", sender, name, 0, "none", 0, <<>>,
                         addCandidateEvent(candidates', name))
         /\ nAddOk' = nAddOk + 1
         /\ UNCHANGED <<admin, hasVoted, voterToCandidate, creator, nVoteOk>>

\* -------------------------------------------------------------------- vote
\* Faulty variant: the hasVoted check is missing.
voteRevertNoVotedCheck(sender, candidateIndex) ==
    IF candidateIndex >= Len(candidates) THEN "InvalidCandidateIndex" ELSE "none"

\* Faulty variant: the index is checked before the vote record.
voteRevertIndexFirst(sender, candidateIndex) ==
    IF candidateIndex >= Len(candidates) THEN "InvalidCandidateIndex"
    ELSE IF hasVoted[sender] THEN "AlreadyVoted"
    ELSE "none"

\* Faulty variant: an index above the length is rejected, the length itself
\* is not; the transaction then fails on the array access (Panic).
voteRevertOffByOne(sender, candidateIndex) ==
    IF hasVoted[sender] THEN "AlreadyVoted"
    ELSE IF candidateIndex > Len(candidates) THEN "InvalidCandidateIndex"
    ELSE IF candidateIndex = Len(candidates) THEN "Panic"
    ELSE "none"

\* Faulty variant: an address that has voted may vote again for another
\* candidate.
voteRevertAllowsChange(sender, candidateIndex) ==
    IF hasVoted[sender] /\ voterToCandidate[sender] = candidateIndex THEN "AlreadyVoted"
    ELSE IF candidateIndex >= Len(candidates) THEN "InvalidCandidateIndex"
    ELSE "none"

\* The error vote reverts with, "none" when it goes through.
voteRevert(sender, candidateIndex) ==
    IF hasVoted[sender] THEN "AlreadyVoted"
    ELSE IF candidateIndex >= Len(candidates) THEN "InvalidCandidateIndex"
    ELSE "none"

\* Faulty variant: the count of every candidate is raised.
incrementVoteCountAll(candidateIndex) ==
    [k \in 1 .. Len(candidates) |-> [candidates[k] EXCEPT !.voteCount = @ + 1]]

\* Faulty variant: the count is raised by two.
incrementVoteCountTwice(candidateIndex) ==
    [candidates EXCEPT ![candidateIndex + 1].voteCount = @ + 2]

\* candidates[candidateIndex].voteCount++
incrementVoteCount(candidateIndex) ==
    [candidates EXCEPT ![candidateIndex + 1].voteCount = @ + 1]

vote(sender, candidateIndex) ==
    LET err == voteRevert(sender, candidateIndex) IN
    IF err # "none"
    THEN /\ last' = Call("vote", sender, <<>>, candidateIndex, err,
                         IF err = "InvalidCandidateIndex" THEN candidateIndex ELSE 0,
                         <<>>, NoEvent)
         /\ UNCHANGED <<ledger, history>>
    ELSE /\ hasVoted' = [hasVoted EXCEPT ![sender] = TRUE]
         /\ voterToCandidate' = [voterToCandidate EXCEPT ![sender] = candidateIndex]
         /\ candidates' = incrementVoteCount(candidateIndex)
         /\ last' = Call("vote", sender, <<>>, candidateIndex, "none", 0, <<>>,
                         VoteCast(sender, candidateIndex))
         /\ nVoteOk' = [nVoteOk EXCEPT ![sender] = @ + 1]
         /\ UNCHANGED <<admin, creator, nAddOk>>

\* ------------------------------------------------------------------- views
getCandidates == candidates

getCandidateCount == Len(candidates)

\* Faulty variant: an address counts as having voted when the index recorded
\* for it is not the default 0.
hasAddressVotedByIndex(voter) == voterToCandidate[voter] # 0

hasAddressVoted(voter) == hasVoted[voter]

\* Faulty variant: the comparison is >=, so the last maximum wins.
RECURSIVE winnerScanLastMax(_, _, _)
winnerScanLastMax(i, maxVotes, winnerIndex) ==
    IF ~(i < Len(candidates)) THEN winnerIndex
    ELSE IF candidates[i + 1].voteCount >= maxVotes
         THEN winnerScanLastMax(i + 1, candidates[i + 1].voteCount, i)
         ELSE winnerScanLastMax(i + 1, maxVotes, winnerIndex)

\* The loop of getWinner from position i on: the final winnerIndex.
RECURSIVE winnerScan(_, _, _)
winnerScan(i, maxVotes, winnerIndex) ==
    IF ~(i < Len(candidates)) THEN winnerIndex
    ELSE IF candidates[i + 1].voteCount > maxVotes
         THEN winnerScan(i + 1, candidates[i + 1].voteCount, i)
         ELSE winnerScan(i + 1, maxVotes, winnerIndex)

\* uint256 maxVotes = 0; uint256 winnerIndex = 0; for (i = 0; ...)
getWinnerIndex == winnerScan(0, 0, 0)

\* Faulty variant: a registry without votes is treated as having no winner.
getWinnerRevertNoVotes ==
    IF Len(candidates) = 0 \/ \A i \in 1 .. Len(candidates) : candidates[i].voteCount = 0
    THEN "NoCandidates" ELSE "none"

getWinnerRevert ==
    IF Len(candidates) = 0 THEN "NoCandidates" ELSE "none"

\* Faulty variant: the call moves the winner to the front of the array
\* before it returns the name.
getWinnerReordering ==
    /\ Len(candidates) > 0
    /\ last' = Call("getWinner", 0, <<>>, 0, "none", 0,
                    candidates[getWinnerIndex + 1].name, NoEvent)
    /\ candidates' = <<candidates[getWinnerIndex + 1]>>
                        \o SubSeq(candidates, 1, getWinnerIndex)
                        \o SubSeq(candidates, getWinnerIndex + 2, Len(candidates))
    /\ UNCHANGED <<admin, hasVoted, voterToCandidate, history>>

\* A view: it does not read msg.sender, recorded as 0.
getWinner ==
    /\ last' = IF getWinnerRevert # "none"
               THEN Call("getWinner", 0, <<>>, 0, getWinnerRevert, 0, <<>>, NoEvent)
               ELSE Call("getWinner", 0, <<>>, 0, "none", 0,
                         candidates[getWinnerIndex + 1].name, NoEvent)
    /\ UNCHANGED <<ledger, history>>

\* The view getCandidates called: the whole array is returned.
getCandidatesCall ==
    /\ last' = Call("getCandidates", 0, <<>>, 0, "none", 0, getCandidates, NoEvent)
    /\ UNCHANGED <<ledger, history>>

\* The view hasAddressVoted called; its address argument is recorded in the
\* index field of the call.
hasAddressVotedCall(voter) ==
    /\ last' = Call("hasAddressVoted", 0, <<>>, voter, "none", 0,
                    hasAddressVoted(voter), NoEvent)
    /\ UNCHANGED <<ledger, history>>

\* ------------------------------------------------------------ specification
\* Transactions and calls sent to the contract directly, by any account.
AddCandidate ==
    /\ \E sender \in Identities, name \in Names : addCandidate(sender, name)
    /\ UNCHANGED api
Vote ==
    /\ \E sender \in Identities, candidateIndex \in Indices : vote(sender, candidateIndex)
    /\ UNCHANGED api
GetWinner ==
    /\ getWinner
    /\ UNCHANGED api
GetCandidates ==
    /\ getCandidatesCall
    /\ UNCHANGED api
HasAddressVoted ==
    /\ \E voter \in Identities : hasAddressVotedCall(voter)
    /\ UNCHANGED api

Next == AddCandidate \/ Vote \/ GetWinner \/ GetCandidates \/ HasAddressVoted

Spec == Init /\ [][Next]_vars

\* ================================================================= backend
\* The Express backend: validator.js, routes/voting.js and the error handler.
\* Every await on the node (a call or a send) is a point where other
\* requests and other transactions may run.

\* The backend right after load, in its default mode (NODE_ENV unset):
\* web3Client has created the contract handle or has failed to; no request
\* has been received.
ApiInit ==
    /\ LedgerInit
    /\ votingContract \in BOOLEAN
    /\ NODE_ENV = ""
    /\ reqs = [r \in Requests |-> NewRequest]

\* ---------------------------------------------------------- request bodies
\* body.voterAddress: absent, a string that is no address, or an address.
VoterInputs ==
    {[kind |-> "missing", id |-> 0], [kind |-> "malformed", id |-> 0]}
        \cup {[kind |-> "address", id |-> a] : a \in {1, 2}}

\* body.candidateIndex: absent (undefined or null), or a value whose string
\* form parseInt reads: 0, 1, 7, -1, "x", "1x", " 1", "".
IndexInputs ==
    {[missing |-> TRUE, text |-> <<>>]}
        \cup {[missing |-> FALSE, text |-> t] :
                t \in {<<"0">>, <<"1">>, <<"7">>, <<"-", "1">>, <<"x">>,
                       <<"1", "x">>, <<" ", "1">>, <<>>}}

Digits == {"0", "1", "2", "3", "4", "5", "6", "7", "8", "9"}

DigitValue(c) ==
    CASE c = "0" -> 0 [] c = "1" -> 1 [] c = "2" -> 2 [] c = "3" -> 3 [] c = "4" -> 4
      [] c = "5" -> 5 [] c = "6" -> 6 [] c = "7" -> 7 [] c = "8" -> 8 [] c = "9" -> 9

NaN == [nan |-> TRUE, value |-> 0]

\* The leading run of digits of text from position k, read in base ten with
\* acc the value of the digits read so far.
RECURSIVE ReadDigits(_, _, _)
ReadDigits(text, k, acc) ==
    IF k > Len(text) \/ text[k] \notin Digits THEN acc
    ELSE ReadDigits(text, k + 1, 10 * acc + DigitValue(text[k]))

\* Position of the first character of text at or after k that is no blank.
RECURSIVE SkipBlanks(_, _)
SkipBlanks(text, k) ==
    IF k <= Len(text) /\ text[k] = " " THEN SkipBlanks(text, k + 1) ELSE k

\* JavaScript parseInt: leading blanks are skipped, an optional sign is
\* read, then the leading digits; NaN when there is no digit.
parseInt(text) ==
    LET start == SkipBlanks(text, 1)
        signed == start <= Len(text) /\ text[start] \in {"-", "+"}
        first == IF signed THEN start + 1 ELSE start
    IN IF first > Len(text) \/ text[first] \notin Digits THEN NaN
       ELSE [nan |-> FALSE,
             value |-> IF signed /\ text[start] = "-"
                       THEN 0 - ReadDigits(text, first, 0)
                       ELSE ReadDigits(text, first, 0)]

\* ------------------------------------------------------------ errorHandler
\* An error as the handler sees it: err.status (0 when unset) and the
\* fragments err.message contains among those the handler looks for.
Error(status, fragments) == [status |-> status, fragments |-> fragments]

\* What the node reports when a transaction reverts with a custom error.
RevertError == Error(0, {"revert"})

\* What the JavaScript runtime throws on a property read of undefined.
TypeError == Error(0, {})

\* Failures of the node that are no revert.
NetworkErrors ==
    {Error(0, {}), Error(0, {"insufficient funds"}), Error(0, {"Contract address not found"})}

\* Faulty variant: the missing contract address is looked for first.
errorStatusNotFoundFirst(err) ==
    IF "Contract address not found" \in err.fragments THEN 503
    ELSE IF "revert" \in err.fragments THEN 400
    ELSE IF "insufficient funds" \in err.fragments THEN 400
    ELSE IF "invalid address" \in err.fragments THEN 400
    ELSE IF err.status # 0 THEN err.status
    ELSE 500

\* The status errorHandler answers with.
errorStatus(err) ==
    IF "revert" \in err.fragments THEN 400
    ELSE IF "insufficient funds" \in err.fragments THEN 400
    ELSE IF "invalid address" \in err.fragments THEN 400
    ELSE IF "Contract address not found" \in err.fragments THEN 503
    ELSE IF err.status # 0 THEN err.status
    ELSE 500

\* res.status(status).json({success: false, ...}): the request is answered.
Rejected(rq, status) ==
    [rq EXCEPT !.pc = "done", !.status = status, !.success = FALSE,
               !.responses = @ + 1]

\* The text of the error field of the answer: one of the fixed texts, the
\* revert reason cut out of err.message, or err.message itself.
errorMessage(err) ==
    IF "revert" \in err.fragments THEN "Transaction reverted"
    ELSE IF "insufficient funds" \in err.fragments THEN "Insufficient funds for transaction"
    ELSE IF "invalid address" \in err.fragments THEN "Invalid Ethereum address"
    ELSE IF "Contract address not found" \in err.fragments THEN "Contract not deployed"
    ELSE "err.message"

\* Whether the answer carries err.stack.
errorStack == NODE_ENV = "development"

errorHandler(rq, err) ==
    [Rejected(rq, errorStatus(err)) EXCEPT !.err = err,
                                           !.error = errorMessage(err),
                                           !.stack = errorStack]

\* process.env.NODE_ENV: unset, production, or the value that turns the
\* stack on.
NodeEnvs == {"", "production", "development"}

\* The texts errorHandler looks for in err.message.
Fragments == {"revert", "insufficient funds", "invalid address", "Contract address not found"}

\* Errors passed to next(): err.status unset (0) or set by a middleware, and
\* a message containing any of the texts, several of them included.
ErrorInputs == {Error(status, fragments) : status \in {0, 413}, fragments \in SUBSET Fragments}

\* Some route or middleware passes err to next(err); errorHandler answers.
NextError(r) ==
    /\ reqs[r].pc = "new"
    /\ \E err \in ErrorInputs :
          reqs' = [reqs EXCEPT ![r] = errorHandler([reqs[r] EXCEPT !.route = "error"], err)]
    /\ UNCHANGED <<ledger, last, history, config>>

\* The backend after load in any mode.
ErrorsInit ==
    /\ LedgerInit
    /\ votingContract \in BOOLEAN
    /\ NODE_ENV \in NodeEnvs
    /\ reqs = [r \in Requests |-> NewRequest]

NextErrors == \E r \in Requests : NextError(r)

\* errorHandler alone, applied to every error of ErrorInputs.
SpecErrors == ErrorsInit /\ [][NextErrors]_vars

\* ------------------------------------------------------------ validateVote
\* validateContract, then validateVote up to its await: the answer it sends,
\* or the request suspended on hasVoted(voterAddress).call().
validateVote(rq, voterAddress, candidateIndex) ==
    IF ~votingContract THEN Rejected(rq, 503)
    ELSE IF voterAddress.kind = "missing" THEN Rejected(rq, 400)
    ELSE IF voterAddress.kind # "address" THEN Rejected(rq, 400)
    ELSE IF candidateIndex.missing THEN Rejected(rq, 400)
    ELSE IF parseInt(candidateIndex.text).nan \/ parseInt(candidateIndex.text).value < 0
         THEN Rejected(rq, 400)
    ELSE [rq EXCEPT !.pc = "hasVotedCall",
                    !.voterAddress = voterAddress.id,
                    !.index = parseInt(candidateIndex.text).value]

\* POST /api/vote arrives.
PostVote(r) ==
    /\ reqs[r].pc = "new"
    /\ \E voterAddress \in VoterInputs, candidateIndex \in IndexInputs :
          reqs' = [reqs EXCEPT ![r] =
                        validateVote([reqs[r] EXCEPT !.route = "vote",
                                                     !.body = [voterAddress |-> voterAddress,
                                                               candidateIndex |-> candidateIndex]],
                                     voterAddress, candidateIndex)]
    /\ UNCHANGED <<ledger, last, history, config>>

\* Faulty variant: the handler does not await the send and answers at once.
hasVotedPrecheckNoAwait(rq) ==
    IF hasVoted[rq.voterAddress] THEN Rejected(rq, 400)
    ELSE [rq EXCEPT !.pc = "done", !.submitted = TRUE, !.status = 200, !.success = TRUE,
                    !.responses = @ + 1]

\* hasVoted(voterAddress).call() returns: 400 when the address has voted,
\* otherwise next() runs the route handler up to vote(index).send(...).
hasVotedPrecheck(rq) ==
    IF hasVoted[rq.voterAddress] THEN Rejected(rq, 400)
    ELSE [rq EXCEPT !.pc = "send", !.submitted = TRUE]

HasVotedReturns(r) ==
    /\ reqs[r].pc = "hasVotedCall"
    /\ reqs' = [reqs EXCEPT ![r] = hasVotedPrecheck(reqs[r])]
    /\ UNCHANGED <<ledger, last, history, config>>

\* hasVoted(voterAddress).call() throws: next(error).
HasVotedFails(r) ==
    /\ reqs[r].pc = "hasVotedCall"
    /\ \E err \in NetworkErrors : reqs' = [reqs EXCEPT ![r] = errorHandler(reqs[r], err)]
    /\ UNCHANGED <<ledger, last, history, config>>

\* -------------------------------------------------------------- POST /vote
\* Faulty variant: a reverted vote is sent again, time after time.
voteSentResubmitting(rq, err) ==
    IF err = "none" THEN [rq EXCEPT !.pc = "getCandidatesCall", !.committed = TRUE]
    ELSE [rq EXCEPT !.rejected = ~@]

\* Faulty variant: a reverted vote is sent a second time before the error
\* is passed on.
voteSentRetrying(rq, err) ==
    IF err = "none" THEN [rq EXCEPT !.pc = "getCandidatesCall", !.committed = TRUE]
    ELSE IF ~rq.rejected THEN [rq EXCEPT !.rejected = TRUE]
    ELSE [errorHandler(rq, RevertError) EXCEPT !.rejected = TRUE]

\* The request after the node has mined its transaction with outcome err.
voteSent(rq, err) ==
    IF err = "none" THEN [rq EXCEPT !.pc = "getCandidatesCall", !.committed = TRUE]
    ELSE [errorHandler(rq, RevertError) EXCEPT !.rejected = TRUE]

\* The transaction of vote(index).send({from: voterAddress}) is mined: the
\* contract runs vote with msg.sender = voterAddress; a revert rejects the
\* send and the catch passes the error on.
VoteMined(r) ==
    /\ reqs[r].pc = "send"
    /\ vote(reqs[r].voterAddress, reqs[r].index)
    /\ reqs' = [reqs EXCEPT ![r] = voteSent(reqs[r], last'.err)]
    /\ UNCHANGED config

\* The node refuses the transaction without running it.
VoteSendFails(r) ==
    /\ reqs[r].pc = "send"
    /\ \E err \in NetworkErrors :
          reqs' = [reqs EXCEPT ![r] = [errorHandler(reqs[r], err) EXCEPT !.rejected = TRUE]]
    /\ UNCHANGED <<ledger, last, history, config>>

\* Faulty variant: the name is read from the first entry of the array.
voteAnsweredFirstName(rq) ==
    IF rq.index < Len(getCandidates)
    THEN [rq EXCEPT !.pc = "done", !.status = 200, !.success = TRUE,
                    !.responses = @ + 1,
                    !.candidateName = getCandidates[1].name]
    ELSE errorHandler(rq, TypeError)

\* getCandidates().call() returns: candidates[index].name, then the 200
\* answer (res.json); reading .name of a missing entry throws.
voteAnswered(rq) ==
    IF rq.index < Len(getCandidates)
    THEN [rq EXCEPT !.pc = "done", !.status = 200, !.success = TRUE,
                    !.responses = @ + 1,
                    !.candidateName = getCandidates[rq.index + 1].name]
    ELSE errorHandler(rq, TypeError)

VoteCandidatesReturns(r) ==
    /\ reqs[r].pc = "getCandidatesCall"
    /\ reqs' = [reqs EXCEPT ![r] = voteAnswered(reqs[r])]
    /\ UNCHANGED <<ledger, last, history, config>>

VoteCandidatesFails(r) ==
    /\ reqs[r].pc = "getCandidatesCall"
    /\ \E err \in NetworkErrors : reqs' = [reqs EXCEPT ![r] = errorHandler(reqs[r], err)]
    /\ UNCHANGED <<ledger, last, history, config>>

\* The admin registers a candidate with a transaction of its own.
AdminRegisters ==
    /\ \E name \in Names : addCandidate(admin, name)
    /\ UNCHANGED api

NextVoteApi ==
    \/ AdminRegisters
    \/ \E r \in Requests : PostVote(r)
    \/ \E r \in Requests : HasVotedReturns(r)
    \/ \E r \in Requests : HasVotedFails(r)
    \/ \E r \in Requests : VoteMined(r)
    \/ \E r \in Requests : VoteSendFails(r)
    \/ \E r \in Requests : VoteCandidatesReturns(r)
    \/ \E r \in Requests : VoteCandidatesFails(r)

SpecVoteApi == ApiInit /\ [][NextVoteApi]_vars

\* -------------------------------------------------------- POST /candidates
\* name.length limit of validateAddCandidate.
MaxNameLength == 100

\* A string of n characters.
Long(n) == [k \in 1 .. n |-> "a"]

\* body.name: absent, a number, or a string: "", " ", "A", " B", one of
\* exactly MaxNameLength characters, one of one more.
NameInputs ==
    {NoName, [type |-> "number", chars |-> <<>>]}
        \cup {[type |-> "string", chars |-> t] :
                t \in {<<>>, <<" ">>, <<"A">>, <<" ", "B">>,
                       Long(MaxNameLength), Long(MaxNameLength + 1)}}

\* Position of the last character of text at or before k that is no blank.
RECURSIVE LastNonBlank(_, _)
LastNonBlank(text, k) ==
    IF k >= 1 /\ text[k] = " " THEN LastNonBlank(text, k - 1) ELSE k

\* String.prototype.trim
trim(text) ==
    IF SkipBlanks(text, 1) > LastNonBlank(text, Len(text)) THEN <<>>
    ELSE SubSeq(text, SkipBlanks(text, 1), LastNonBlank(text, Len(text)))

\* adminAddress as routes/voting.js imports it: web3Client exports the
\* value the variable has when the module is loaded, the empty string
\* (falsy, 0 here); initialize() assigns it only after its first await.
adminAddress == 0

\* The first account of the node, accounts[0].
FirstAccount == 1

\* Faulty variant: the name is not trimmed before the emptiness test.
validateAddCandidateNoTrim(rq, name) ==
    IF ~votingContract THEN Rejected(rq, 503)
    ELSE IF name.type # "string" \/ Len(name.chars) = 0 THEN Rejected(rq, 400)
    ELSE IF Len(name.chars) > MaxNameLength THEN Rejected(rq, 400)
    ELSE IF adminAddress = 0 THEN [rq EXCEPT !.pc = "adminCall"]
    ELSE [rq EXCEPT !.pc = "sendAdd", !.adminAddr = adminAddress, !.submitted = TRUE]

\* validateContract, validateAddCandidate, then the route handler up to its
\* first await: the answer sent, or the request suspended on admin().call()
\* (adminAddress is falsy) or on addCandidate(name).send(...).
validateAddCandidate(rq, name) ==
    IF ~votingContract THEN Rejected(rq, 503)
    ELSE IF name.type # "string" \/ Len(name.chars) = 0 THEN Rejected(rq, 400)
    ELSE IF Len(trim(name.chars)) = 0 THEN Rejected(rq, 400)
    ELSE IF Len(name.chars) > MaxNameLength THEN Rejected(rq, 400)
    ELSE IF adminAddress = 0 THEN [rq EXCEPT !.pc = "adminCall"]
    ELSE [rq EXCEPT !.pc = "sendAdd", !.adminAddr = adminAddress, !.submitted = TRUE]

\* POST /api/candidates arrives.
PostCandidates(r) ==
    /\ reqs[r].pc = "new"
    /\ \E name \in NameInputs :
          reqs' = [reqs EXCEPT ![r] =
                        validateAddCandidate([reqs[r] EXCEPT !.route = "candidates",
                                                             !.name = name],
                                             name)]
    /\ UNCHANGED <<ledger, last, history, config>>

\* The client, without an answer to a request whose transaction was
\* submitted, sends the same registration again.
ClientRetries(r) ==
    /\ reqs[r].pc = "new"
    /\ \E q \in Requests \ {r} :
          /\ reqs[q].pc \in {"sendAdd", "countCall"}
          /\ reqs' = [reqs EXCEPT ![r] =
                        validateAddCandidate([reqs[r] EXCEPT !.route = "candidates",
                                                             !.name = reqs[q].name,
                                                             !.retry = TRUE],
                                             reqs[q].name)]
    /\ UNCHANGED <<ledger, last, history, config>>

\* admin().call() returns the contract's admin; the handler goes on to
\* addCandidate(name).send({from: adminAddr}).
AdminCallReturns(r) ==
    /\ reqs[r].pc = "adminCall"
    /\ reqs' = [reqs EXCEPT ![r] = [@ EXCEPT !.pc = "sendAdd", !.adminAddr = admin,
                                             !.submitted = TRUE]]
    /\ UNCHANGED <<ledger, last, history, config>>

\* admin().call() throws: the inner catch asks the node for its accounts.
AdminCallFails(r) ==
    /\ reqs[r].pc = "adminCall"
    /\ reqs' = [reqs EXCEPT ![r] = [@ EXCEPT !.pc = "getAccountsCall"]]
    /\ UNCHANGED <<ledger, last, history, config>>

\* Faulty variant: the 500 answer is sent without return, and the handler
\* goes on to the send with an undefined sender.
accountsReturnedNoReturn(rq, accounts) ==
    IF Len(accounts) = 0
    THEN [Rejected(rq, 500) EXCEPT !.pc = "sendAdd", !.submitted = TRUE]
    ELSE [rq EXCEPT !.pc = "sendAdd", !.adminAddr = accounts[1], !.submitted = TRUE]

\* getAccounts() returns: accounts[0] becomes adminAddr; with no account
\* adminAddr is undefined and the answer is 500.
accountsReturned(rq, accounts) ==
    IF Len(accounts) = 0 THEN Rejected(rq, 500)
    ELSE [rq EXCEPT !.pc = "sendAdd", !.adminAddr = accounts[1], !.submitted = TRUE]

GetAccountsReturns(r) ==
    /\ reqs[r].pc = "getAccountsCall"
    /\ \E accounts \in {<<>>, <<FirstAccount>>} :
          reqs' = [reqs EXCEPT ![r] = accountsReturned(reqs[r], accounts)]
    /\ UNCHANGED <<ledger, last, history, config>>

\* getAccounts() throws: the outer catch passes the error on.
GetAccountsFails(r) ==
    /\ reqs[r].pc = "getAccountsCall"
    /\ \E err \in NetworkErrors : reqs' = [reqs EXCEPT ![r] = errorHandler(reqs[r], err)]
    /\ UNCHANGED <<ledger, last, history, config>>

\* What the receipt of a mined addCandidate offers the handler: the decoded
\* event (receipt.events.CandidateAdded), only raw logs that decodeLog
\* decodes, only raw logs that it cannot decode (or an ABI without the
\* event), or neither.
ReceiptShapes == {"events", "logs", "undecodable", "none"}

\* Faulty variant: the raw log is decoded with the topics shifted, which
\* yields another number than the one the contract emitted.
receiptIndexShiftedTopics(shape, event) ==
    IF shape = "events" THEN event.candidateIndex
    ELSE IF shape = "logs" THEN event.candidateIndex + 1
    ELSE -1

\* The candidateIndex the handler reads off the receipt, -1 (null) when it
\* has to fall back on getCandidateCount. event is the event the contract
\* emitted in the transaction.
receiptIndex(shape, event) ==
    IF shape = "events" THEN event.candidateIndex
    ELSE IF shape = "logs" THEN event.candidateIndex
    ELSE -1

\* res.status(201).json({success: true, data: {name, candidateIndex, ...}})
Created(rq, candidateIndex) ==
    [rq EXCEPT !.pc = "done", !.status = 201, !.success = TRUE, !.responses = @ + 1,
               !.candidateIndex = candidateIndex]

\* The request after the node has mined its addCandidate with the outcome
\* call (a record of the contract call) and a receipt of the given shape.
addSent(rq, call, shape) ==
    IF call.err # "none"
    THEN [errorHandler(rq, RevertError) EXCEPT !.rejected = TRUE]
    ELSE LET mined == [rq EXCEPT !.committed = TRUE, !.receipt = shape,
                                 !.appendedAt = Len(candidates)]
         IN IF receiptIndex(shape, call.event) # -1
            THEN Created(mined, receiptIndex(shape, call.event))
            ELSE [mined EXCEPT !.pc = "countCall"]

\* Another request, when an addCandidate that is not its own is committed:
\* it is marked as raced if it has submitted and not answered yet.
overtaken(rq) ==
    IF rq.pc \in {"sendAdd", "countCall"} THEN [rq EXCEPT !.raced = TRUE] ELSE rq

\* The transaction of addCandidate(name).send({from: adminAddr}) is mined.
AddMined(r) ==
    /\ reqs[r].pc = "sendAdd"
    /\ addCandidate(reqs[r].adminAddr, reqs[r].name.chars)
    /\ \E shape \in ReceiptShapes :
          reqs' = [q \in Requests |->
                     IF q = r THEN addSent(reqs[r], last', shape)
                     ELSE IF last'.err = "none" THEN overtaken(reqs[q])
                     ELSE reqs[q]]
    /\ UNCHANGED config

\* The node refuses the transaction without running it.
AddSendFails(r) ==
    /\ reqs[r].pc = "sendAdd"
    /\ \E err \in NetworkErrors :
          reqs' = [reqs EXCEPT ![r] = [errorHandler(reqs[r], err) EXCEPT !.rejected = TRUE]]
    /\ UNCHANGED <<ledger, last, history, config>>

\* Faulty variant: the fallback answers with the count itself.
countReturnedNoMinus(rq) == Created(rq, getCandidateCount)

\* Fallback: getCandidateCount().call() returns; candidateIndex = count - 1.
countReturned(rq) == Created(rq, getCandidateCount - 1)

CountReturns(r) ==
    /\ reqs[r].pc = "countCall"
    /\ reqs' = [reqs EXCEPT ![r] = countReturned(reqs[r])]
    /\ UNCHANGED <<ledger, last, history, config>>

CountFails(r) ==
    /\ reqs[r].pc = "countCall"
    /\ \E err \in NetworkErrors : reqs' = [reqs EXCEPT ![r] = errorHandler(reqs[r], err)]
    /\ UNCHANGED <<ledger, last, history, config>>

\* -------------------------------------------------------------- GET routes
\* Faulty variant: the routes run without a contract handle.
validateContractOpen(rq, next) == next

\* validateContract in front of a route: 503 without the contract handle,
\* otherwise next() runs the route up to its first await.
validateContract(rq, next) ==
    IF ~votingContract THEN Rejected(rq, 503) ELSE next

\* The errors a reverted call() is thrown as: the message names the revert,
\* or it is the generic text of a failed contract execution.
CallRevertErrors == {RevertError, Error(0, {})}

\* GET /api/winner arrives; the handler awaits getWinner().call().
GetWinnerRoute(r) ==
    /\ reqs[r].pc = "new"
    /\ reqs' = [reqs EXCEPT ![r] =
                  validateContract([@ EXCEPT !.route = "winner"],
                                   [@ EXCEPT !.route = "winner", !.pc = "getWinnerCall"])]
    /\ UNCHANGED <<ledger, last, history, config>>

\* res.json({success: true, ..., data: {winner}})
winnerAnswered(rq, winner) ==
    [rq EXCEPT !.pc = "done", !.status = 200, !.success = TRUE, !.winner = winner,
               !.responses = @ + 1]

\* The winner of the registry as it stands, with its count.
winnerPair ==
    <<candidates[getWinnerIndex + 1].name, candidates[getWinnerIndex + 1].voteCount>>

\* The request after getWinner().call() has come back with the outcome
\* call: a revert is thrown as err and passed to next; a falsy name is
\* answered with winner: null; otherwise the handler awaits getCandidates().
winnerNameReturned(rq, call, err) ==
    IF call.err # "none" THEN errorHandler(rq, err)
    ELSE IF Len(call.ret) = 0
         THEN [winnerAnswered(rq, NullWinner) EXCEPT !.error = "No winner yet (no votes cast)"]
    ELSE [rq EXCEPT !.pc = "winnerCandidatesCall", !.winnerName = call.ret,
                    !.seen = {winnerPair}]

GetWinnerReturns(r) ==
    /\ reqs[r].pc = "getWinnerCall"
    /\ getWinner
    /\ \E err \in CallRevertErrors :
          reqs' = [reqs EXCEPT ![r] = winnerNameReturned(reqs[r], last', err)]
    /\ UNCHANGED config

\* getWinner().call() fails without running the contract.
GetWinnerFails(r) ==
    /\ reqs[r].pc = "getWinnerCall"
    /\ \E err \in NetworkErrors : reqs' = [reqs EXCEPT ![r] = errorHandler(reqs[r], err)]
    /\ UNCHANGED <<ledger, last, history, config>>

\* candidates.find(c => c.name === name): the position of the first entry
\* with that name from position k on, 0 when there is none.
RECURSIVE find(_, _, _)
find(list, name, k) ==
    IF k > Len(list) THEN 0
    ELSE IF list[k].name = name THEN k
    ELSE find(list, name, k + 1)

\* data.winner: the name getWinner returned and the voteCount of the entry
\* find returns, 0 without one.
winnerDetails(rq, list) ==
    [kind |-> "winner", name |-> rq.winnerName,
     voteCount |-> IF find(list, rq.winnerName, 1) = 0 THEN 0
                   ELSE list[find(list, rq.winnerName, 1)].voteCount]

\* getCandidates().call() returns to GET /api/winner.
WinnerCandidatesReturns(r) ==
    /\ reqs[r].pc = "winnerCandidatesCall"
    /\ getCandidatesCall
    /\ reqs' = [reqs EXCEPT ![r] = winnerAnswered(@, winnerDetails(@, last'.ret))]
    /\ UNCHANGED config

WinnerCandidatesFails(r) ==
    /\ reqs[r].pc = "winnerCandidatesCall"
    /\ \E err \in NetworkErrors : reqs' = [reqs EXCEPT ![r] = errorHandler(reqs[r], err)]
    /\ UNCHANGED <<ledger, last, history, config>>

\* GET /api/candidates arrives; the handler awaits getCandidates().call().
GetCandidatesRoute(r) ==
    /\ reqs[r].pc = "new"
    /\ reqs' = [reqs EXCEPT ![r] =
                  validateContract([@ EXCEPT !.route = "list"],
                                   [@ EXCEPT !.route = "list", !.pc = "listCall"])]
    /\ UNCHANGED <<ledger, last, history, config>>

\* candidates.map((candidate, index) => ({index, name, voteCount}))
formattedCandidates(list) ==
    [k \in 1 .. Len(list) |->
        [index |-> k - 1, name |-> list[k].name, voteCount |-> list[k].voteCount]]

ListReturns(r) ==
    /\ reqs[r].pc = "listCall"
    /\ getCandidatesCall
    /\ reqs' = [reqs EXCEPT ![r] = [@ EXCEPT !.pc = "done", !.status = 200, !.success = TRUE,
                                             !.responses = @ + 1,
                                             !.listed = formattedCandidates(last'.ret)]]
    /\ UNCHANGED config

ListFails(r) ==
    /\ reqs[r].pc = "listCall"
    /\ \E err \in NetworkErrors : reqs' = [reqs EXCEPT ![r] = errorHandler(reqs[r], err)]
    /\ UNCHANGED <<ledger, last, history, config>>

\* The four routes of the backend, with requests of any kind in flight
\* together; candidates are registered through POST /candidates.
NextApi ==
    \/ \E r \in Requests : PostCandidates(r)
    \/ \E r \in Requests : ClientRetries(r)
    \/ \E r \in Requests : AdminCallReturns(r)
    \/ \E r \in Requests : AdminCallFails(r)
    \/ \E r \in Requests : GetAccountsReturns(r)
    \/ \E r \in Requests : GetAccountsFails(r)
    \/ \E r \in Requests : AddMined(r)
    \/ \E r \in Requests : AddSendFails(r)
    \/ \E r \in Requests : CountReturns(r)
    \/ \E r \in Requests : CountFails(r)
    \/ \E r \in Requests : PostVote(r)
    \/ \E r \in Requests : HasVotedReturns(r)
    \/ \E r \in Requests : HasVotedFails(r)
    \/ \E r \in Requests : VoteMined(r)
    \/ \E r \in Requests : VoteSendFails(r)
    \/ \E r \in Requests : VoteCandidatesReturns(r)
    \/ \E r \in Requests : VoteCandidatesFails(r)
    \/ \E r \in Requests : GetWinnerRoute(r)
    \/ \E r \in Requests : GetWinnerReturns(r)
    \/ \E r \in Requests : GetWinnerFails(r)
    \/ \E r \in Requests : WinnerCandidatesReturns(r)
    \/ \E r \in Requests : WinnerCandidatesFails(r)
    \/ \E r \in Requests : GetCandidatesRoute(r)
    \/ \E r \in Requests : ListReturns(r)
    \/ \E r \in Requests : ListFails(r)

SpecApi == ApiInit /\ [][NextApi]_vars

\* The node reports the outcome of what request r waits for: the result or
\* the failure of its call, the mining or the refusal of its transaction.
NetworkAnswers(r) ==
    \/ AdminCallReturns(r) \/ AdminCallFails(r)
    \/ GetAccountsReturns(r) \/ GetAccountsFails(r)
    \/ AddMined(r) \/ AddSendFails(r)
    \/ CountReturns(r) \/ CountFails(r)
    \/ HasVotedReturns(r) \/ HasVotedFails(r)
    \/ VoteMined(r) \/ VoteSendFails(r)
    \/ VoteCandidatesReturns(r) \/ VoteCandidatesFails(r)
    \/ GetWinnerReturns(r) \/ GetWinnerFails(r)
    \/ WinnerCandidatesReturns(r) \/ WinnerCandidatesFails(r)
    \/ ListReturns(r) \/ ListFails(r)

\* The routes with a node that settles every promise the handlers await:
\* each pending call or send is resolved or rejected in the end.
SpecApiFair == SpecApi /\ \A r \in Requests : WF_vars(NetworkAnswers(r))

\* A GET /winner request that waits for getCandidates() while a transaction
\* is mined: the winner of the new ledger state is added to its history.
observing(rq) ==
    IF rq.pc = "winnerCandidatesCall" THEN [rq EXCEPT !.seen = @ \cup {winnerPair'}] ELSE rq

\* The admin registers a candidate while GET requests are in flight.
RegistersMeanwhile ==
    /\ \E name \in Names : addCandidate(admin, name)
    /\ reqs' = [r \in Requests |-> observing(reqs[r])]
    /\ UNCHANGED config

\* An account votes while GET requests are in flight.
VotesMeanwhile ==
    /\ \E sender \in Identities, candidateIndex \in Indices : vote(sender, candidateIndex)
    /\ reqs' = [r \in Requests |-> observing(reqs[r])]
    /\ UNCHANGED config

\* The request followed through the ledger states of its two queries.
SnapshotRequests == {"r1"}

\* One GET /api/winner request while the admin registers candidates and
\* accounts vote, every ledger state in between recorded for the request.
NextSnapshot ==
    \/ RegistersMeanwhile
    \/ VotesMeanwhile
    \/ \E r \in SnapshotRequests : GetWinnerRoute(r)
    \/ \E r \in SnapshotRequests : GetWinnerReturns(r)
    \/ \E r \in SnapshotRequests : GetWinnerFails(r)
    \/ \E r \in SnapshotRequests : WinnerCandidatesReturns(r)
    \/ \E r \in SnapshotRequests : WinnerCandidatesFails(r)

SpecSnapshot == ApiInit /\ [][NextSnapshot]_vars

\* ------------------------------------------------------------------ helpers
\* Number of vote records that point at contract index i.
RecordsFor(i) ==
    Cardinality({v \in Identities : hasVoted[v] /\ voterToCandidate[v] = i})

\* The largest voteCount of a non-empty registry.
MaxVoteCount ==
    CHOOSE m \in {candidates[k].voteCount : k \in 1 .. Len(candidates)} :
        \A k \in 1 .. Len(candidates) : candidates[k].voteCount <= m

\* The lowest contract index whose voteCount is the largest.
FirstMaxIndex ==
    CHOOSE i \in 0 .. (Len(candidates) - 1) :
        /\ candidates[i + 1].voteCount = MaxVoteCount
        /\ \A j \in 0 .. (i - 1) : candidates[j + 1].voteCount < MaxVoteCount

AllZero == \A k \in 1 .. Len(candidates) : candidates[k].voteCount = 0

\* --------------------------------------------------------------------- C1
\* C1: no address ever has more than one successful vote; a vote call by an
\* address that already voted successfully reverts with AlreadyVoted whatever
\* index it passes, and leaves every candidate's voteCount unchanged.
C1_SingleVote ==
    /\ [](\A v \in Identities : nVoteOk[v] <= 1)
    /\ [][\A v \in Identities :
            (last'.op = "vote" /\ last'.sender = v /\ nVoteOk[v] >= 1)
                => (/\ last'.err = "AlreadyVoted"
                    /\ candidates' = candidates
                    /\ nVoteOk' = nVoteOk)]_vars

\* A second call by a voter, for a valid index other than the one voted for.
C1_Witness ==
    /\ last.op = "vote" /\ last.err = "AlreadyVoted"
    /\ nVoteOk[last.sender] = 1
    /\ last.index < Len(candidates)
    /\ last.index # voterToCandidate[last.sender]

\* --------------------------------------------------------------------- C2
\* C2: of two POST /vote requests for the same address that both passed the
\* hasVoted pre-check and submitted a transaction, at most one is committed
\* by the contract and at most one is answered with success; a success answer
\* is sent only for a committed vote, and the address's vote is counted once.
C2_OneCommitPerAddress ==
    /\ \A r1, r2 \in Requests :
          (/\ r1 # r2
           /\ reqs[r1].submitted /\ reqs[r2].submitted
           /\ reqs[r1].voterAddress = reqs[r2].voterAddress)
              => (/\ ~(reqs[r1].committed /\ reqs[r2].committed)
                  /\ ~(reqs[r1].success /\ reqs[r2].success))
    /\ \A r \in Requests : reqs[r].success => reqs[r].committed
    /\ \A r \in Requests :
          reqs[r].committed
              => (/\ hasVoted[reqs[r].voterAddress]
                  /\ nVoteOk[reqs[r].voterAddress] = 1
                  /\ voterToCandidate[reqs[r].voterAddress] = reqs[r].index)
    /\ \A v \in Identities : nVoteOk[v] <= 1
    /\ \A i \in 0 .. (Len(candidates) - 1) : candidates[i + 1].voteCount = RecordsFor(i)

\* Both requests passed the pre-check and submitted; one was committed and
\* answered with success, the other's transaction reverted with AlreadyVoted
\* and it was answered with 400.
C2_Witness ==
    \E r1, r2 \in Requests :
        /\ r1 # r2
        /\ reqs[r1].voterAddress = reqs[r2].voterAddress
        /\ reqs[r1].submitted /\ reqs[r1].committed /\ reqs[r1].success
        /\ reqs[r2].submitted /\ ~reqs[r2].committed
        /\ reqs[r2].pc = "done" /\ reqs[r2].status = 400
        /\ last.op = "vote" /\ last.err = "AlreadyVoted"
        /\ last.sender = reqs[r2].voterAddress

\* --------------------------------------------------------------------- C3
\* C3: in every state, each candidate's voteCount equals the number of
\* addresses with hasVoted true whose voterToCandidate is that index.
C3_CountMatchesRecords ==
    \A i \in 0 .. (Len(candidates) - 1) : candidates[i + 1].voteCount = RecordsFor(i)

C3_Witness ==
    /\ Len(candidates) = 2
    /\ candidates[1].voteCount = 1
    /\ candidates[2].voteCount = 2

\* --------------------------------------------------------------------- C4
\* C4: addCandidate by a sender other than admin reverts with Unauthorized
\* and leaves the candidate sequence unchanged; the sequence grows only in
\* an addCandidate step whose sender is admin.
C4_OnlyAdminAdds ==
    [][/\ (last'.op = "addCandidate" /\ last'.sender # admin)
            => (last'.err = "Unauthorized" /\ candidates' = candidates)
       /\ (Len(candidates') > Len(candidates))
            => (last'.op = "addCandidate" /\ last'.sender = admin)]_vars

\* A non-admin was refused a valid name on a registry that already has entries.
C4_Witness ==
    /\ last.op = "addCandidate" /\ last.sender # admin
    /\ last.err = "Unauthorized"
    /\ Len(last.name) > 0
    /\ Len(candidates) >= 1

\* --------------------------------------------------------------------- C5
\* C5: the index in the CandidateAdded event of a successful addCandidate,
\* which is the position the candidate is stored at, equals the number of
\* addCandidate calls that succeeded before it; failed calls and votes in
\* between consume no index.
C5_IndexIsPriorSuccesses ==
    [][/\ (nAddOk' = nAddOk + 1)
            => (/\ last'.op = "addCandidate" /\ last'.err = "none"
                /\ last'.event.kind = "CandidateAdded"
                /\ last'.event.candidateIndex = nAddOk
                /\ Len(candidates') = nAddOk + 1
                /\ candidates'[nAddOk + 1].name = last'.name)
       /\ (last'.op = "addCandidate" /\ last'.err = "none") => (nAddOk' = nAddOk + 1)
       /\ (last'.op # "addCandidate" \/ last'.err # "none") => (nAddOk' = nAddOk)]_vars

\* The second candidate was added after a vote had been cast.
C5_Witness ==
    /\ last.op = "addCandidate" /\ last.err = "none"
    /\ last.event.kind = "CandidateAdded"
    /\ last.event.candidateIndex = 1
    /\ \E v \in Identities : hasVoted[v]

\* --------------------------------------------------------------------- C6
\* C6 as stated: addCandidate with an empty name reverts with
\* EmptyCandidateName for every sender, admin or not.
C6_EmptyNameAnySender ==
    (last.op = "addCandidate" /\ Len(last.name) = 0) => last.err = "EmptyCandidateName"

\* C6 amended: addCandidate with an empty name always reverts and leaves the
\* ledger unchanged; the error is EmptyCandidateName when the sender is admin
\* and Unauthorized when it is not.
C6_EmptyNameRejected ==
    [][(last'.op = "addCandidate" /\ Len(last'.name) = 0)
            => (/\ last'.err = (IF last'.sender = admin
                                THEN "EmptyCandidateName" ELSE "Unauthorized")
                /\ UNCHANGED ledger)]_vars

C6_Witness ==
    /\ last.op = "addCandidate" /\ Len(last.name) = 0
    /\ last.sender = admin
    /\ last.err = "EmptyCandidateName"
    /\ Len(candidates) >= 1

\* --------------------------------------------------------------------- C7
\* C7 as stated: vote with an index >= the number of candidates reverts with
\* InvalidCandidateIndex carrying that index, in any ledger state.
C7_InvalidIndexAnyState ==
    (last.op = "vote" /\ last.index >= Len(candidates))
        => (last.err = "InvalidCandidateIndex" /\ last.errIndex = last.index)

\* C7 amended: vote with an index >= the number of candidates always reverts
\* and leaves the ledger unchanged; for a sender without a vote record the
\* error is InvalidCandidateIndex carrying the index (also on an empty
\* registry and for index = length), for a sender that already voted it is
\* AlreadyVoted.
C7_InvalidIndexRejected ==
    [][(last'.op = "vote" /\ last'.index >= Len(candidates))
            => (/\ UNCHANGED ledger
                /\ IF hasVoted[last'.sender]
                   THEN last'.err = "AlreadyVoted"
                   ELSE /\ last'.err = "InvalidCandidateIndex"
                        /\ last'.errIndex = last'.index)]_vars

\* Index equal to the length, on a registry that holds votes.
C7_Witness ==
    /\ last.op = "vote" /\ last.err = "InvalidCandidateIndex"
    /\ last.index = Len(candidates)
    /\ last.errIndex = last.index
    /\ Len(candidates) >= 1
    /\ \E v \in Identities : hasVoted[v]

\* --------------------------------------------------------------------- C8
\* C8: vote checks the vote record before the index: a sender that already
\* voted gets AlreadyVoted even with an out-of-range index, and
\* InvalidCandidateIndex goes only to senders without a vote record.
C8_CheckOrder ==
    [][(last'.op = "vote")
            => (/\ hasVoted[last'.sender] => last'.err = "AlreadyVoted"
                /\ last'.err = "InvalidCandidateIndex"
                     => (~hasVoted[last'.sender] /\ last'.index >= Len(candidates)))]_vars

\* A voter calls again with an index beyond the registry.
C8_Witness ==
    /\ last.op = "vote" /\ last.err = "AlreadyVoted"
    /\ hasVoted[last.sender]
    /\ last.index > Len(candidates)

\* --------------------------------------------------------------------- C9
\* C9: on a non-empty registry getWinner returns the name of the lowest-index
\* candidate among those with the maximal voteCount.
C9_FirstMaxWins ==
    (Len(candidates) > 0)
        => (/\ getWinnerIndex = FirstMaxIndex
            /\ candidates[getWinnerIndex + 1].voteCount = MaxVoteCount
            /\ (last.op = "getWinner")
                 => (last.err = "none" /\ last.ret = candidates[FirstMaxIndex + 1].name))

\* getWinner answered on a tie at one vote each between differently named
\* candidates.
C9_Witness ==
    /\ last.op = "getWinner" /\ last.err = "none"
    /\ Len(candidates) = 2
    /\ candidates[1].voteCount = 1 /\ candidates[2].voteCount = 1
    /\ candidates[1].name # candidates[2].name
    /\ last.ret = candidates[1].name

\* -------------------------------------------------------------------- C10
\* C10: on a non-empty registry in which every voteCount is 0, getWinner
\* succeeds and returns the name of the candidate at index 0.
C10_AllZeroFirstWins ==
    (last.op = "getWinner" /\ Len(candidates) > 0 /\ AllZero)
        => (last.err = "none" /\ last.ret = candidates[1].name)

C10_Witness ==
    /\ last.op = "getWinner" /\ last.err = "none"
    /\ Len(candidates) = 2 /\ AllZero
    /\ candidates[1].name # candidates[2].name
    /\ last.ret = candidates[1].name

\* -------------------------------------------------------------------- C11
\* C11: getWinner reverts with NoCandidates exactly when the candidate
\* sequence is empty; once an addCandidate has succeeded it never does.
C11_NoCandidatesIffEmpty ==
    /\ (getWinnerRevert = "NoCandidates") <=> (Len(candidates) = 0)
    /\ (last.op = "getWinner")
         => ((last.err = "NoCandidates") <=> (Len(candidates) = 0))
    /\ (nAddOk >= 1) => (getWinnerRevert = "none")

\* getWinner answered on a registry of one candidate without votes.
C11_Witness ==
    /\ last.op = "getWinner" /\ last.err = "none"
    /\ nAddOk = 1 /\ Len(candidates) = 1
    /\ candidates[1].voteCount = 0

\* -------------------------------------------------------------------- C12
\* C12: across every step the sequence of names before the step is a prefix
\* of the sequence after it, and the length never decreases.
C12_AppendOnly ==
    [][/\ Len(candidates') >= Len(candidates)
       /\ \A k \in 1 .. Len(candidates) : candidates'[k].name = candidates[k].name]_vars

\* A second, differently named candidate was added after the first got a vote.
C12_Witness ==
    /\ last.op = "addCandidate" /\ last.err = "none"
    /\ Len(candidates) = 2
    /\ candidates[1].name # candidates[2].name
    /\ candidates[1].voteCount >= 1

\* -------------------------------------------------------------------- C13
\* C13: admin is the address that deployed the contract, in every state, and
\* no step changes it.
C13_AdminFixed ==
    /\ [](admin = creator)
    /\ [][admin' = admin]_vars

\* Deployed by address 2; candidates were added, address 1 voted and then
\* had a second vote refused.
C13_Witness ==
    /\ creator = 2 /\ admin = 2
    /\ nAddOk = 2
    /\ last.op = "vote" /\ last.sender = 1 /\ last.err = "AlreadyVoted"

\* -------------------------------------------------------------------- C14
\* C14: hasAddressVoted(v) is true exactly when an earlier vote call by v
\* succeeded: false for an address that never called or whose calls all
\* reverted, and a vote by one address changes no other address's answer.
C14_HasVotedIffSucceeded ==
    /\ [](\A v \in Identities : hasAddressVoted(v) <=> (nVoteOk[v] >= 1))
    /\ []((last.op = "hasAddressVoted") => (last.ret <=> (nVoteOk[last.index] >= 1)))
    /\ [][(last'.op = "vote")
            => \A v \in Identities \ {last'.sender} :
                   hasAddressVoted(v)' = hasAddressVoted(v)]_vars

\* An address whose vote just reverted on the index has not voted, while
\* another address has voted for index 1.
C14_Witness ==
    /\ last.op = "vote" /\ last.err = "InvalidCandidateIndex"
    /\ ~hasAddressVoted(last.sender)
    /\ \E v \in Identities : hasAddressVoted(v) /\ voterToCandidate[v] = 1

\* -------------------------------------------------------------------- C15
\* C15: getCandidates, getWinner and hasAddressVoted change nothing in the
\* ledger, and the value each returns is the value the same call returns in
\* the state it leaves behind, so repeating it yields the same result.
C15_ViewsPure ==
    [][(last'.op \in {"getCandidates", "getWinner", "hasAddressVoted"})
            => (/\ UNCHANGED <<ledger, history>>
                /\ (last'.op = "getCandidates") => (last'.ret = getCandidates')
                /\ (last'.op = "getWinner")
                     => (/\ last'.err = getWinnerRevert'
                         /\ (last'.err = "none")
                              => (last'.ret = candidates'[getWinnerIndex' + 1].name))
                /\ (last'.op = "hasAddressVoted")
                     => (\A a \in Identities :
                            (a = last'.index) => (last'.ret = hasAddressVoted(a)')))]_vars

\* getCandidates returned two candidates, the second with a vote.
C15_Witness ==
    /\ last.op = "getCandidates"
    /\ Len(last.ret) = 2
    /\ last.ret[2].voteCount = 1
    /\ last.ret = candidates

\* -------------------------------------------------------------------- C16
\* C16: when no other addCandidate is committed between a POST /candidates
\* request's submission and its answer, the candidateIndex of its 201 answer
\* is the index its candidate was stored at, whichever way the index was
\* extracted (decoded event, decoded log, getCandidateCount() - 1).
C16_SerializedIndexRight ==
    \A r \in Requests :
        (reqs[r].status = 201 /\ ~reqs[r].raced)
            => (/\ reqs[r].committed
                /\ reqs[r].candidateIndex = reqs[r].appendedAt
                /\ reqs[r].candidateIndex < Len(candidates)
                /\ candidates[reqs[r].candidateIndex + 1].name = reqs[r].name.chars)

\* The second candidate, answered through the fallback without a race.
C16_Witness ==
    \E r \in Requests :
        /\ reqs[r].status = 201 /\ ~reqs[r].raced
        /\ reqs[r].receipt \in {"undecodable", "none"}
        /\ reqs[r].candidateIndex = 1

\* -------------------------------------------------------------------- C17
\* C17: a 201 answer carries an index other than the one the request's
\* candidate was stored at only when the index came from the fallback and
\* another addCandidate was committed before the answer; the witness is the
\* interleaving in which that happens, both requests answering index 1.
C17_WrongIndexOnlyByRace ==
    \A r \in Requests :
        (reqs[r].status = 201 /\ reqs[r].candidateIndex # reqs[r].appendedAt)
            => (/\ reqs[r].receipt \in {"undecodable", "none"}
                /\ reqs[r].raced)

C17_Witness ==
    \E r1, r2 \in Requests :
        /\ r1 # r2
        /\ reqs[r1].status = 201 /\ reqs[r2].status = 201
        /\ reqs[r1].appendedAt = 0 /\ reqs[r2].appendedAt = 1
        /\ reqs[r1].candidateIndex = 1 /\ reqs[r2].candidateIndex = 1
        /\ reqs[r1].receipt = "none"

C19_RetryDeduplicated ==
    \A r, q \in Requests :
        (/\ r # q
         /\ reqs[r].retry
         /\ reqs[r].name = reqs[q].name
         /\ reqs[q].committed)
            => ~reqs[r].committed

\* -------------------------------------------------------------------- C20
\* A name as the claim describes the ones to refuse: missing, not a string,
\* empty, only blanks, or longer than 100 characters.
RefusedName(name) ==
    \/ name.type # "string"
    \/ Len(name.chars) = 0
    \/ \A k \in 1 .. Len(name.chars) : name.chars[k] = " "
    \/ Len(name.chars) > 100

\* C20 as stated: a POST /candidates request with such a name is answered
\* 400 and nothing is submitted; any name of 1 to 100 characters passes.
C20_BadNameIs400 ==
    \A r \in Requests :
        (reqs[r].route = "candidates")
            => (/\ RefusedName(reqs[r].name)
                     => (reqs[r].status = 400 /\ ~reqs[r].submitted)
                /\ (reqs[r].name.type = "string"
                    /\ Len(reqs[r].name.chars) \in 1 .. 100)
                     => ~(reqs[r].status = 400 /\ ~reqs[r].submitted))

\* C20 amended: with the contract handle initialized, a POST /candidates
\* request with such a name is answered 400 by the validation and nothing is
\* submitted, so the ledger is unchanged; a string of 1 to 100 characters
\* that is not only blanks passes the validation. Without the handle every
\* request is answered 503, whatever its name.
C20_BadNameRefused ==
    /\ [](\A r \in Requests :
            (reqs[r].route = "candidates" /\ RefusedName(reqs[r].name))
                => (/\ reqs[r].pc = "done"
                    /\ reqs[r].status = (IF votingContract THEN 400 ELSE 503)
                    /\ ~reqs[r].submitted /\ ~reqs[r].committed))
    /\ [][\A r \in Requests :
            (reqs[r].pc = "new" /\ reqs'[r].route = "candidates")
                => (/\ UNCHANGED <<ledger, history>>
                    /\ (votingContract /\ ~RefusedName(reqs'[r].name))
                         => reqs'[r].pc = "adminCall"
                    /\ (~votingContract) => reqs'[r].status = 503)]_vars

\* One request refused for a name of blanks, another for a name of 101
\* characters, with the handle initialized.
C20_Witness ==
    \E r1, r2 \in Requests :
        /\ votingContract
        /\ reqs[r1].route = "candidates" /\ reqs[r1].status = 400
        /\ reqs[r1].name = [type |-> "string", chars |-> <<" ">>]
        /\ reqs[r2].route = "candidates" /\ reqs[r2].status = 400
        /\ Len(reqs[r2].name.chars) = 101

\* -------------------------------------------------------------------- C21
\* Whether text is written as a number: an optional sign and digits only,
\* blanks around them allowed.
IsNumber(text) ==
    /\ Len(trim(text)) > 0
    /\ \A k \in 1 .. Len(trim(text)) :
          \/ trim(text)[k] \in Digits
          \/ k = 1 /\ trim(text)[k] \in {"-", "+"} /\ Len(trim(text)) > 1

\* A POST /vote body that validateVote is to refuse: the identity missing
\* or malformed, the index missing, not a number, or negative.
RefusedVoteBody(body) ==
    \/ body.voterAddress.kind # "address"
    \/ body.candidateIndex.missing
    \/ ~IsNumber(body.candidateIndex.text)
    \/ trim(body.candidateIndex.text)[1] = "-"

\* C21: a POST /vote request with a missing or malformed identity, a
\* missing index or a negative or non-numeric index is answered with an
\* error at once, without anything submitted; and a vote is committed only
\* for an index inside the registry, so an out-of-range index changes nothing.
C21_BadVoteRejected ==
    \A r \in Requests :
        (reqs[r].route = "vote")
            => (/\ RefusedVoteBody(reqs[r].body)
                     => (/\ reqs[r].pc = "done"
                         /\ ~reqs[r].success
                         /\ reqs[r].status \in {400, 503}
                         /\ ~reqs[r].submitted
                         /\ ~reqs[r].committed)
                /\ reqs[r].committed => reqs[r].index < Len(candidates))

\* -------------------------------------------------------------------- C22
\* C22: when getWinner is called for a GET /winner request on an empty
\* registry, the request is answered 200 with success and winner: null.
C22_EmptyRegistryNullWinner ==
    [][\A r \in Requests :
          (/\ reqs[r].pc = "getWinnerCall"
           /\ reqs'[r].pc # "getWinnerCall"
           /\ last' # last
           /\ last'.op = "getWinner"
           /\ Len(candidates) = 0)
              => (/\ reqs'[r].pc = "done"
                  /\ reqs'[r].status = 200
                  /\ reqs'[r].success
                  /\ reqs'[r].winner = NullWinner)]_vars

\* -------------------------------------------------------------------- C23
\* C23: a GET /winner request answered with success while candidates are
\* registered and no vote has been cast carries winner: null and the
\* message 'No winner yet (no votes cast)'.
C23_NoVotesNullWinner ==
    \A r \in Requests :
        (/\ reqs[r].route = "winner"
         /\ reqs[r].pc = "done"
         /\ reqs[r].success
         /\ Len(candidates) > 0
         /\ AllZero)
            => (/\ reqs[r].winner = NullWinner
                /\ reqs[r].error = "No winner yet (no votes cast)")

\* -------------------------------------------------------------------- C24
\* C24: when GET /winner answers with a winner and the candidate that wins
\* at that moment bears the name getWinner returned, the voteCount of the
\* answer is the maximum voteCount of the registry, candidates that share a
\* name included.
C24_WinnerCountIsMax ==
    [][\A r \in Requests :
          (/\ reqs[r].pc = "winnerCandidatesCall"
           /\ reqs'[r].pc = "done"
           /\ reqs'[r].success
           /\ candidates[getWinnerIndex + 1].name = reqs[r].winnerName)
              => (/\ reqs'[r].winner.kind = "winner"
                  /\ reqs'[r].winner.name = reqs[r].winnerName
                  /\ reqs'[r].winner.voteCount = MaxVoteCount)]_vars

\* -------------------------------------------------------------------- C25
\* C25: when a call of a request to the contract reverts (Unauthorized,
\* EmptyCandidateName, AlreadyVoted, InvalidCandidateIndex, NoCandidates),
\* the ledger is left as it was and the request is answered at once with
\* the error; an answered request takes no further step and a request that
\* has left its send never returns to it, so nothing is submitted twice.
C25_RevertNotRetried ==
    [][\A r \in Requests :
          /\ (/\ reqs[r].pc \in {"send", "sendAdd", "getWinnerCall"}
              /\ reqs'[r] # reqs[r]
              /\ last' # last
              /\ last'.err # "none")
                 => (/\ UNCHANGED ledger
                     /\ reqs'[r].pc = "done"
                     /\ ~reqs'[r].success
                     /\ reqs'[r].status \in {400, 500}
                     /\ reqs'[r].err \in CallRevertErrors
                     /\ ~reqs'[r].committed
                     /\ reqs[r].submitted => reqs'[r].rejected)
          /\ reqs[r].pc = "done" => reqs'[r] = reqs[r]
          /\ (reqs[r].submitted /\ reqs[r].pc \notin {"send", "sendAdd"})
                 => reqs'[r].pc \notin {"send", "sendAdd"}]_vars

\* A registration sent from an account that is not the admin was reverted
\* and answered 400; the registry is still empty.
C25_Witness ==
    \E r \in Requests :
        /\ reqs[r].route = "candidates" /\ reqs[r].pc = "done"
        /\ reqs[r].submitted /\ reqs[r].rejected /\ reqs[r].status = 400
        /\ last.op = "addCandidate" /\ last.err = "Unauthorized"
        /\ Len(candidates) = 0

\* -------------------------------------------------------------------- C26
\* The causes in the order the claim gives them, with the status and the
\* text of each.
CauseOrder == <<"revert", "insufficient funds", "invalid address", "Contract address not found">>
CauseStatus == <<400, 400, 400, 503>>
CauseText ==
    <<"Transaction reverted", "Insufficient funds for transaction",
      "Invalid Ethereum address", "Contract not deployed">>

\* The positions of CauseOrder whose text the message of err contains.
Matches(err) == {k \in 1 .. Len(CauseOrder) : CauseOrder[k] \in err.fragments}

\* C26: every error passed to the handler gets one answer: the status and
\* text of the earliest cause its message contains, in the order revert,
\* insufficient funds, invalid address, Contract address not found; with no
\* cause in the message, the error's own status, or 500, and its own text.
C26_FirstMatchClassifies ==
    \A r \in Requests :
        (reqs[r].route = "error" /\ reqs[r].pc = "done")
            => (/\ ~reqs[r].success
                /\ Matches(reqs[r].err) # {}
                     => \E k \in Matches(reqs[r].err) :
                           /\ \A j \in Matches(reqs[r].err) : k <= j
                           /\ reqs[r].status = CauseStatus[k]
                           /\ reqs[r].error = CauseText[k]
                /\ Matches(reqs[r].err) = {}
                     => (/\ reqs[r].status = (IF reqs[r].err.status # 0
                                              THEN reqs[r].err.status ELSE 500)
                         /\ reqs[r].error = "err.message"))

\* A message with the first and the last cause is answered as a revert,
\* and an error with a status of its own and no cause keeps that status.
C26_Witness ==
    \E r1, r2 \in Requests :
        /\ reqs[r1].pc = "done"
        /\ reqs[r1].err.fragments = {"revert", "Contract address not found"}
        /\ reqs[r1].status = 400
        /\ reqs[r2].pc = "done"
        /\ reqs[r2].err = Error(413, {})
        /\ reqs[r2].status = 413

\* -------------------------------------------------------------------- C27
\* C27: unless NODE_ENV is development, an answer of the error handler
\* carries neither the stack nor the message of the error it was given.
C27_NoRawDetailByDefault ==
    \A r \in Requests :
        (reqs[r].pc = "done" /\ reqs[r].err # NoError /\ NODE_ENV # "development")
            => (/\ ~reqs[r].stack
                /\ reqs[r].error # "err.message")

\* -------------------------------------------------------------------- C28
\* C28: without the contract handle every request that has arrived, on any
\* of the four routes, is answered 503 without success; none waits for a
\* call or a send, nothing was submitted, and the contract was never called.
C28_NoHandleIs503 ==
    (~votingContract)
        => (/\ \A r \in Requests :
                  /\ reqs[r].pc \in {"new", "done"}
                  /\ reqs[r].pc = "done"
                       => (/\ reqs[r].status = 503
                           /\ ~reqs[r].success
                           /\ ~reqs[r].submitted
                           /\ reqs[r].err = NoError)
            /\ last.op = "constructor"
            /\ Len(candidates) = 0)

\* Without the handle, a GET /candidates and a POST /vote were answered 503.
C28_Witness ==
    \E r1, r2 \in Requests :
        /\ ~votingContract
        /\ reqs[r1].route = "list" /\ reqs[r1].status = 503
        /\ reqs[r2].route = "vote" /\ reqs[r2].status = 503
        /\ reqs[r2].body.voterAddress.kind = "address"

\* -------------------------------------------------------------------- C29
\* C29: a successful vote(i) by v marks v as having voted, records v -> i
\* and raises the count of candidate i by exactly 1; the admin, the names,
\* the length, the other counts and the other addresses' records stay as
\* they were. No step of any kind lowers a count.
C29_VoteFrame ==
    [][/\ (nVoteOk' # nVoteOk)
            => (/\ last'.op = "vote" /\ last'.err = "none"
                /\ ~hasVoted[last'.sender]
                /\ hasVoted' = [hasVoted EXCEPT ![last'.sender] = TRUE]
                /\ voterToCandidate' =
                       [voterToCandidate EXCEPT ![last'.sender] = last'.index]
                /\ Len(candidates') = Len(candidates)
                /\ \A k \in 1 .. Len(candidates) :
                      /\ candidates'[k].name = candidates[k].name
                      /\ candidates'[k].voteCount =
                             candidates[k].voteCount
                                 + (IF k = last'.index + 1 THEN 1 ELSE 0)
                /\ admin' = admin)
       /\ \A k \in 1 .. Len(candidates) :
             /\ k <= Len(candidates')
             /\ candidates'[k].voteCount >= candidates[k].voteCount]_vars

\* The second of two candidates has just received a vote while the first
\* keeps the vote it had.
C29_Witness ==
    /\ last.op = "vote" /\ last.err = "none" /\ last.index = 1
    /\ Len(candidates) = 2
    /\ candidates[1].voteCount = 1 /\ candidates[2].voteCount = 1
    /\ \E v \in Identities : ~hasVoted[v]

\* -------------------------------------------------------------------- C30
\* C30: a successful addCandidate appends one entry {name, voteCount: 0} and
\* leaves the existing entries, the vote records and the admin as they
\* were. The admin's call with a non-empty name goes through whatever votes
\* have been cast, and a vote for any stored index, a later one included,
\* by an address that has not voted goes through.
C30_AddFrame ==
    [][/\ (nAddOk' # nAddOk)
            => (/\ last'.op = "addCandidate" /\ last'.err = "none"
                /\ candidates' = Append(candidates, [name |-> last'.name, voteCount |-> 0])
                /\ UNCHANGED <<admin, hasVoted, voterToCandidate>>)
       /\ (last' # last /\ last'.op = "addCandidate"
           /\ last'.sender = admin /\ Len(last'.name) > 0)
            => (last'.err = "none" /\ nAddOk' = nAddOk + 1)
       /\ (last' # last /\ last'.op = "vote"
           /\ ~hasVoted[last'.sender] /\ last'.index < Len(candidates))
            => (last'.err = "none" /\ candidates'[last'.index + 1].voteCount
                                         = candidates[last'.index + 1].voteCount + 1)]_vars

\* A candidate has just been added after a vote was cast for the first one.
C30_Witness ==
    /\ last.op = "addCandidate" /\ last.err = "none"
    /\ Len(candidates) = 2
    /\ candidates[1].voteCount = 1 /\ candidates[2].voteCount = 0
    /\ candidates[2].name = last.name

\* -------------------------------------------------------------------- C31
\* C31: a successful vote(i) by v leaves hasVoted[v] true and i recorded for
\* v, and no later step of any kind (votes, added candidates, failed calls,
\* views) changes the record of an address that has voted.
C31_VoteRecordPermanent ==
    [][/\ (last' # last /\ last'.op = "vote" /\ last'.err = "none")
            => (/\ hasVoted'[last'.sender]
                /\ voterToCandidate'[last'.sender] = last'.index)
       /\ \A v \in Identities :
             hasVoted[v] => (/\ hasVoted'[v]
                             /\ voterToCandidate'[v] = voterToCandidate[v])]_vars

\* An address that voted for candidate 0 has just tried to vote for
\* candidate 1, after a second candidate was added and another address
\* voted; its record still names candidate 0.
C31_Witness ==
    /\ last.op = "vote" /\ last.err = "AlreadyVoted" /\ last.index = 1
    /\ hasVoted[last.sender] /\ voterToCandidate[last.sender] = 0
    /\ Len(candidates) = 2
    /\ \E w \in Identities : w # last.sender /\ hasVoted[w] /\ voterToCandidate[w] = 1

\* -------------------------------------------------------------------- C32
\* C32: when GET /winner answers with a winner and the names of the registry
\* are all different, the {name, voteCount} of the answer is the winner and
\* its count in one of the states the ledger went through between the
\* getWinner call and the answer.
C32_WinnerFromOneSnapshot ==
    \A r \in Requests :
        (/\ reqs[r].route = "winner"
         /\ reqs[r].success
         /\ reqs[r].winner.kind = "winner"
         /\ \A j, k \in 1 .. Len(candidates) :
               candidates[j].name = candidates[k].name => j = k)
            => <<reqs[r].winner.name, reqs[r].winner.voteCount>> \in reqs[r].seen

\* -------------------------------------------------------------------- C33
\* C33: a POST /vote request answered with success was committed for its
\* index, that index is the one recorded for its address, and candidateName
\* is the name stored at that index; while the request waits for
\* getCandidates() after its commit, its index is inside the registry, so
\* the lookup finds an entry whatever was registered or voted meanwhile.
C33_VotedNameRight ==
    \A r \in Requests :
        /\ (reqs[r].route = "vote" /\ reqs[r].success)
              => (/\ reqs[r].committed
                  /\ reqs[r].index < Len(candidates)
                  /\ voterToCandidate[reqs[r].voterAddress] = reqs[r].index
                  /\ reqs[r].candidateName = candidates[reqs[r].index + 1].name)
        /\ (reqs[r].pc = "getCandidatesCall")
              => (reqs[r].committed /\ reqs[r].index < Len(getCandidates))

\* A vote for the second candidate "B" was answered with its name, the
\* other request voted for the first, and a registration was attempted
\* after both commits.
C33_Witness ==
    \E r1, r2 \in Requests :
        /\ reqs[r1].route = "vote" /\ reqs[r1].success
        /\ reqs[r1].index = 1 /\ reqs[r1].candidateName = <<"B">>
        /\ candidates[1].name = <<"A">>
        /\ reqs[r2].route = "vote" /\ reqs[r2].committed /\ reqs[r2].index = 0
        /\ last.op = "addCandidate"

\* -------------------------------------------------------------------- C34
\* C34: with a node that settles every call and every send, each POST
\* /candidates and POST /vote request that has arrived is answered in the
\* end; and no answer carries a status other than those of the validators,
\* the routes and the error handler, a timeout status in particular.
C34_EventuallyAnswered ==
    /\ \A r \in Requests :
          [](reqs[r].route \in {"candidates", "vote"} => <>(reqs[r].pc = "done"))
    /\ [](\A r \in Requests : reqs[r].status \in {0, 200, 201, 400, 500, 503})

\* A vote refused by the node was answered 500 while the other request, a
\* registration, is still suspended on its send.
C34_Witness ==
    \E r1, r2 \in Requests :
        /\ reqs[r1].route = "vote" /\ reqs[r1].pc = "done"
        /\ reqs[r1].submitted /\ reqs[r1].rejected /\ reqs[r1].status = 500
        /\ reqs[r2].route = "candidates" /\ reqs[r2].pc = "sendAdd"

\* -------------------------------------------------------------------- C35
\* C35: no request gets more than one answer: a request that has been
\* answered got exactly one and is handled no further, and a request that
\* is still with a middleware or a handler has got none.
C35_OneResponse ==
    \A r \in Requests :
        /\ reqs[r].responses <= 1
        /\ reqs[r].pc = "done" <=> reqs[r].responses = 1
        /\ reqs[r].pc = "done" <=> reqs[r].status # 0

\* One request was answered by validateAddCandidate itself, the other by
\* the error handler after the route forwarded the failure of its send.
C35_Witness ==
    \E r1, r2 \in Requests :
        /\ reqs[r1].route = "candidates" /\ reqs[r1].status = 400
        /\ reqs[r1].err = NoError /\ reqs[r1].responses = 1
        /\ reqs[r2].route = "candidates" /\ reqs[r2].status = 500
        /\ reqs[r2].err # NoError /\ reqs[r2].submitted /\ reqs[r2].responses = 1

\* -------------------------------------------------------------------- C36
\* C36: as long as no addCandidate and no vote has succeeded since the
\* constructor ran, the admin is the account that deployed the contract,
\* the candidate array is empty (getCandidateCount is 0 and getCandidates
\* returns the empty list) and hasVoted is false for every address.
C36_FreshLedger ==
    (nAddOk = 0 /\ \A a \in Identities : nVoteOk[a] = 0)
        => (/\ admin = creator
            /\ candidates = <<>>
            /\ getCandidateCount = 0
            /\ getCandidates = <<>>
            /\ \A a \in Identities : ~hasAddressVoted(a)
            /\ last.op = "getCandidates" => last.ret = <<>>
            /\ last.op = "hasAddressVoted" => last.ret = FALSE)

\* getCandidates was called on the ledger before any transaction went
\* through and returned the empty list.
C36_Witness ==
    /\ nAddOk = 0 /\ \A a \in Identities : nVoteOk[a] = 0
    /\ last.op = "getCandidates" /\ last.ret = <<>>
    /\ admin = creator /\ admin = 2

====
